---- MODULE Spec2Model ----
(***************************************************************************)
(* CPU_LabSniper: the timed two-phase reservation (create a ticket over    *)
(* HTTP, submit it over a socket.io connection) and the scheduler that     *)
(* races several timed attempts in a thread pool.                          *)
(*                                                                         *)
(* Time is counted in ticks; TicksPerSecond ticks make one second.  The    *)
(* local clock `now` only moves forward, by any amount.                    *)
(***************************************************************************)
EXTENDS Integers, Sequences, FiniteSets, TLC

\* ------------------------------------------------------------------ bounds
MaxJobs == 3
MaxDirect == 2
MaxTime == 5
MaxReconnects == 1
TicksPerSecond == 10
\* the last timestamp, in ticks after the start, that datetime.fromtimestamp
\* converts (the end of the year 9999): later than every reading of the clock
MaxDatetime == 8
\* how many messages each thread writes to the ThreadMonitor
MaxWrites == 2

\* ------------------------------------------------------- program constants
TICKET_ALIVE_SECONDS == 30
CONNECTION_ALIVE_SECONDS == 10

Seconds(n) == n * TicksPerSecond

Min(a, b) == IF a <= b THEN a ELSE b

\* --------------------------------------------------------------- the inputs
\* A constructor argument is a number or something else (a string); the
\* value of a non-number is never read.
NumberTypes == {"int", "float"}

Arg(ptype, val) == [ptype |-> ptype, val |-> val]

\* Lead times and offsets, in ticks, that the constructors are given.
TargetTimestamps == {3}
\* A target so late that no deadline of a valid plan is within datetime's range.
FarTarget ==
    MaxDatetime + Seconds(TICKET_ALIVE_SECONDS) + Seconds(CONNECTION_ALIVE_SECONDS) + 1
CreationAdvances ==
    {-1, 0, 2, Seconds(TICKET_ALIVE_SECONDS), Seconds(TICKET_ALIVE_SECONDS) + 1,
     Seconds(TICKET_ALIVE_SECONDS) + Seconds(CONNECTION_ALIVE_SECONDS)}
SubmissionAdvances ==
    {-1, 0, 1, Seconds(CONNECTION_ALIVE_SECONDS), Seconds(CONNECTION_ALIVE_SECONDS) + 1}
TimeOffsets == {-1, 0, 1}

\* ---------------------------------------------------------------- Intervene
\* Intervene.param_check: "ok", or the exception it raises.
param_check(param, allow_negative) ==
    IF param.ptype \notin NumberTypes THEN "TypeError: not a number"
    ELSE IF param.val < 0 /\ ~allow_negative THEN "ValueError: negative"
    ELSE "ok"

\* The first check of a list that fails, or "ok".
RECURSIVE FirstFailure(_)
FirstFailure(checks) ==
    IF checks = <<>> THEN "ok"
    ELSE IF Head(checks) # "ok" THEN Head(checks)
    ELSE FirstFailure(Tail(checks))

\* schedule.Intervene.__init__ without its TICKET_ALIVE_SECONDS test.
ScheduleInterveneInit_NoTicketBound(a) ==
    LET checks == << param_check(a.target_timestamp, FALSE),
                     param_check(a.creation_advance, FALSE),
                     param_check(a.submission_advance, FALSE),
                     param_check(a.time_offset, TRUE) >>
    IN  IF FirstFailure(checks) # "ok" THEN FirstFailure(checks)
        ELSE IF a.submission_advance.val > Seconds(CONNECTION_ALIVE_SECONDS)
             THEN "ValueError: submission too early"
        ELSE "ok"

\* schedule.Intervene.__init__: "ok", or the exception it raises.
ScheduleInterveneInit(a) ==
    LET checks == << param_check(a.target_timestamp, FALSE),
                     param_check(a.creation_advance, FALSE),
                     param_check(a.submission_advance, FALSE),
                     param_check(a.time_offset, TRUE) >>
    IN  IF FirstFailure(checks) # "ok" THEN FirstFailure(checks)
        ELSE IF a.creation_advance.val - a.submission_advance.val
                    > Seconds(TICKET_ALIVE_SECONDS)
             THEN "ValueError: interval too long"
        ELSE IF a.submission_advance.val > Seconds(CONNECTION_ALIVE_SECONDS)
             THEN "ValueError: submission too early"
        ELSE "ok"

\* reservation.Intervene.__init__ without its TICKET_ALIVE_SECONDS test.
ReservationInterveneInit_NoTicketBound(a) ==
    LET checks == << param_check(a.target_timestamp, FALSE),
                     param_check(a.creation_advance, FALSE),
                     param_check(a.submission_advance, FALSE),
                     param_check(a.time_offset, TRUE) >>
    IN  IF FirstFailure(checks) # "ok" THEN FirstFailure(checks)
        ELSE IF a.submission_advance.val > Seconds(CONNECTION_ALIVE_SECONDS)
             THEN "ValueError: submission too early"
        ELSE "ok"

\* reservation.Intervene.__init__: "ok", or the exception it raises.
ReservationInterveneInit(a) ==
    LET checks == << param_check(a.target_timestamp, FALSE),
                     param_check(a.creation_advance, FALSE),
                     param_check(a.submission_advance, FALSE),
                     param_check(a.time_offset, TRUE) >>
    IN  IF FirstFailure(checks) # "ok" THEN FirstFailure(checks)
        ELSE IF a.creation_advance.val - a.submission_advance.val
                    > Seconds(TICKET_ALIVE_SECONDS)
             THEN "ValueError: interval too long"
        ELSE IF a.submission_advance.val > Seconds(CONNECTION_ALIVE_SECONDS)
             THEN "ValueError: submission too early"
        ELSE "ok"

\* The plan object a constructor leaves: its class and its four fields.
NoPlan == [cls |-> "none", target_timestamp |-> 0, creation_advance |-> 0,
           submission_advance |-> 0, time_offset |-> 0]

PlanObject(cls, a) ==
    [cls |-> cls,
     target_timestamp |-> a.target_timestamp.val,
     creation_advance |-> a.creation_advance.val,
     submission_advance |-> a.submission_advance.val,
     time_offset |-> a.time_offset.val]

\* -------------------------------------------------------------------- state
VARIABLES
    caller,             \* who drives the objects: "execute" (MultiReservationScheduler),
                        \* "direct" (a ReservationService per caller thread), "plan"
                        \* (an Intervene object alone), "monitor" (threads that
                        \* print through a ThreadMonitor)
    intervene_args_all, \* per job: the arguments its Intervene constructor is given
    entry,              \* per job: what its caller does with the objects
    pc,                 \* per job: where the job's own thread is
    outcome,            \* per job: what its call returned or raised
    intervene,          \* per job: the plan object (ReservationService.intervene)
    wait,               \* per job: the wait_until call in progress
    now,                \* the local clock, time.time()
    submitted,          \* execute: how many futures are in the pool
    exec,               \* execute: where the call is
    results,            \* execute: its results list
    printed,            \* execute: the job indexes it has reported, in order
    ticket,             \* per job: the session's request_data / ticket / ticket_id
    hpc,                \* per job: where the socket.io client's event thread is
    res,                \* per job: submit_request's res dictionary
    posts,              \* per job: creation requests sent (requests.post)
    connections,        \* per job: socket.io connections established
    emits,              \* per job: 'yiqikong-reserv' messages emitted
    replies,            \* per job: 'yiqikong-reserv-reback' messages handled
    response,           \* per job: what the creation request was answered
    cookies,            \* the shared User: whether self.cookies is valid
    logins,             \* the shared User: calls of Credential.login
    calendar_id,        \* the shared Equipment: whether self.calendar_id is set
    form_submit,        \* per job: submit_request's form_submit dictionary
    uc,                 \* per job: where its thread is inside User.get_cookies
    login_cookies,      \* per job: get_cookies' local `cookies`, what its login returned
    got_cookies,        \* per job: what get_cookies returned to its caller
    thread_name_mapping, \* the ThreadMonitor: thread name -> registered name
    thread_data,        \* the ThreadMonitor: name -> the messages of that buffer
    main_thread_output, \* the ThreadMonitor: the messages of the main buffer
    lock,               \* the ThreadMonitor: the thread that holds self.lock
    mpc,                \* per thread: where it is inside write / register_thread_as
    frame,              \* per thread: the locals of its call
    sent,               \* per thread: for each write it has called, in order, the
                        \* name the thread was registered as at the call
    log                 \* per job: the steps of the attempt, in the order they happened

planVars == <<caller, intervene_args_all, entry>>
jobVars == <<pc, outcome, intervene, wait>>
execVars == <<submitted, exec, results, printed>>
svcVars == <<ticket, hpc, res, posts, connections, emits, replies>>
createVars == <<response, cookies, logins, calendar_id>>
msgVars == <<form_submit>>
userVars == <<uc, login_cookies, got_cookies>>
monVars == <<thread_name_mapping, thread_data, main_thread_output, lock, mpc, frame, sent>>
attemptVars ==
    <<planVars, createVars, msgVars, userVars, jobVars, execVars, svcVars, now, log>>
vars == <<attemptVars, monVars>>

num_jobs == Len(intervene_args_all)
Jobs == 1..num_jobs

\* Values of results / outcome that are not messages.
Pending == "<pending>"
None == "None"

NoWait == [phase |-> "none", target |-> 0, poll |-> 0, asleep |-> FALSE, wake |-> 0]
NoTicket == [request_data |-> FALSE, ticket |-> FALSE, ticket_id |-> FALSE]
NoRes == [success |-> FALSE, component_id |-> "", message |-> ""]
EmptyDict == [k \in {} |-> ""]

\* The threads that print through the ThreadMonitor: the main thread, a
\* worker, and the event thread of a socket.io client.
MainThread == "MainThread"
EventThread == "Thread-2"
MonitorThreads == IF caller = "monitor" THEN {MainThread, "Thread-1", EventThread} ELSE {}
NoThread == "<no thread>"
NoFrame == [target_thread_name |-> NoThread, buffer |-> <<>>]

\* ----------------------------------------------------------- initial states
ArgsOf(t, c, s, o) ==
    [target_timestamp |-> t, creation_advance |-> c,
     submission_advance |-> s, time_offset |-> o]

Numbers(S) == {Arg("float", v) : v \in S}
NotANumber == Arg("str", 0)

\* What MaxJobs submission advances, one per job, a race may be given.
RaceSubmissionAdvances ==
    Numbers({0, 3, Seconds(CONNECTION_ALIVE_SECONDS) + 1}) \cup {NotANumber}
RaceCreationAdvances == Numbers({2, Seconds(TICKET_ALIVE_SECONDS) + 2})

\* The plan main.py builds, with creation_advance=8 and submission_advance=0.3
\* (seconds) and no offset, for a target LeadPlanTarget ticks after the start.
LeadPlanTarget == 4
LeadPlanArgs ==
    ArgsOf(Arg("int", LeadPlanTarget), Arg("int", Seconds(8)),
           Arg("float", (3 * TicksPerSecond) \div 10), Arg("int", 0))

\* What a caller thread driving its own ReservationService gives its plan.
DirectArgs ==
    {ArgsOf(Arg("int", t), Arg("float", c), Arg("float", s), Arg("float", 0)) :
        t \in TargetTimestamps, c \in {0, 2}, s \in {0, 1}}
    \cup {LeadPlanArgs,
          ArgsOf(Arg("int", FarTarget), Arg("float", 2), Arg("float", 0), Arg("float", 0))}
DirectEntries == {"go", "go_noplan", "submit_first"}

\* The plans of several caller threads that run at once: the same target and
\* creation advance, the submission advance one tick longer from job to job.
ConcurrentArgs(i) ==
    ArgsOf(Arg("int", 3), Arg("float", 2), Arg("float", i - 1), Arg("float", 0))

\* What an Intervene constructor may be given.
PlanArgs ==
    {ArgsOf(t, c, s, o) :
        t \in Numbers(TargetTimestamps \cup {-1, FarTarget}) \cup {NotANumber},
        c \in Numbers(CreationAdvances) \cup {NotANumber},
        s \in Numbers(SubmissionAdvances) \cup {NotANumber},
        o \in Numbers(TimeOffsets) \cup {NotANumber}}
PlanEntries == {"schedule", "reservation"}

SeqsUpTo(S, n) == UNION {[1..k -> S] : k \in 0..n}

InitCommon ==
    /\ pc = [i \in Jobs |-> "idle"]
    /\ outcome = [i \in Jobs |-> Pending]
    /\ intervene = [i \in Jobs |-> NoPlan]
    /\ wait = [i \in Jobs |-> NoWait]
    /\ now = 0
    /\ submitted = 0
    /\ results = <<>>
    /\ printed = <<>>
    /\ ticket = [i \in Jobs |-> NoTicket]
    /\ hpc = [i \in Jobs |-> "off"]
    /\ res = [i \in Jobs |-> NoRes]
    /\ posts = [i \in Jobs |-> 0]
    /\ connections = [i \in Jobs |-> 0]
    /\ emits = [i \in Jobs |-> 0]
    /\ replies = [i \in Jobs |-> 0]
    /\ response = [i \in Jobs |-> "none"]
    /\ form_submit = [i \in Jobs |-> EmptyDict]
    /\ uc = [i \in Jobs |-> "test"]
    /\ login_cookies = [i \in Jobs |-> "none"]
    /\ got_cookies = [i \in Jobs |-> "none"]
    /\ thread_name_mapping = EmptyDict
    /\ thread_data = EmptyDict
    /\ main_thread_output = <<>>
    /\ lock = NoThread
    /\ mpc = [t \in MonitorThreads |-> "idle"]
    /\ frame = [t \in MonitorThreads |-> NoFrame]
    /\ sent = [t \in MonitorThreads |-> <<>>]
    /\ logins = 0
    /\ log = [i \in Jobs |-> <<>>]

\* A constructor that accepts any number of jobs.
MultiReservationSchedulerInit_Unchecked(n) == "ok"

\* MultiReservationScheduler.__init__'s test of self.num_jobs: "ok", or the
\* exception it raises.
MultiReservationSchedulerInit(n) ==
    IF n = 0 THEN "ValueError: no jobs" ELSE "ok"

\* MultiReservationScheduler.__init__: one argument record per submission
\* advance, all with the same target, creation advance and offset; no
\* submission advance at all is a ValueError.
InitExecute ==
    /\ caller = "execute"
    /\ \E t \in Numbers(TargetTimestamps), c \in RaceCreationAdvances,
          advs \in SeqsUpTo(RaceSubmissionAdvances, MaxJobs) :
            intervene_args_all =
                [i \in 1..Len(advs) |-> ArgsOf(t, c, advs[i], Arg("int", 0))]
    /\ entry = [i \in Jobs |-> "worker"]
    /\ exec = IF MultiReservationSchedulerInit(num_jobs) = "ok"
              THEN "constructed" ELSE "init_raised"
    /\ cookies = FALSE
    /\ calendar_id = FALSE
    /\ InitCommon

\* main.py without brute_force: the caller builds a ReservationService and,
\* with a reserve_open_time, a reservation.Intervene, and calls go().
InitDirect ==
    /\ caller = "direct"
    /\ \/ /\ intervene_args_all \in [1..1 -> DirectArgs]
          /\ entry \in [1..1 -> DirectEntries]
          /\ cookies \in BOOLEAN
          /\ calendar_id \in BOOLEAN
       \* several caller threads, on a User whose cookies are not valid (any
       \* more) and an Equipment whose calendar id an earlier call has fetched
       \/ \E n \in 2..MaxDirect :
          /\ intervene_args_all = [i \in 1..n |-> ConcurrentArgs(i)]
          /\ entry = [i \in 1..n |-> "go"]
          /\ cookies = FALSE
          /\ calendar_id = TRUE
    /\ exec = "none"
    /\ InitCommon

\* An Intervene object of either class, built and used alone.
InitPlan ==
    /\ caller = "plan"
    /\ intervene_args_all \in [1..1 -> PlanArgs]
    /\ entry \in [1..1 -> PlanEntries]
    /\ exec = "none"
    /\ cookies = FALSE
    /\ calendar_id = FALSE
    /\ InitCommon

\* ThreadMonitor.__init__: empty buffers, no registered name, a free lock.
InitMonitor ==
    /\ caller = "monitor"
    /\ intervene_args_all = <<>>
    /\ entry = <<>>
    /\ exec = "none"
    /\ cookies = FALSE
    /\ calendar_id = FALSE
    /\ InitCommon

Init == InitExecute \/ InitDirect \/ InitPlan \/ InitMonitor

\* ------------------------------------------------------ how a call can end
\* A worker without its except clause.
WorkerCatches_Never(i) == FALSE

\* MultiReservationScheduler.worker's `except Exception as e: return str(e)`:
\* whether an exception raised in job i is turned into its return value.
WorkerCatches(i) == entry[i] = "worker"

\* Job i's call raises an exception with message msg.
Raise(i, msg) ==
    /\ pc' = [pc EXCEPT ![i] = IF WorkerCatches(i) THEN "done" ELSE "raised"]
    /\ outcome' = [outcome EXCEPT ![i] = msg]

\* Job i's call returns val.
Return(i, val) ==
    /\ pc' = [pc EXCEPT ![i] = "done"]
    /\ outcome' = [outcome EXCEPT ![i] = val]

Finished(i) == pc[i] \in {"done", "raised"}

Logged(i, step) == log' = [log EXCEPT ![i] = Append(@, step)]

\* ------------------------------------------- MultiReservationScheduler.execute
\* execute enters the pool.
ExecuteBegin ==
    /\ exec = "constructed"
    /\ exec' = "submitting"
    /\ UNCHANGED <<monVars, planVars, msgVars, userVars, createVars, jobVars, submitted, results, printed, svcVars, now, log>>

\* executor.submit(self.worker, ...) for the next job, in index order; after
\* the last one the results list is made.
ExecuteSubmit ==
    /\ exec = "submitting"
    /\ submitted < num_jobs
    /\ submitted' = submitted + 1
    /\ pc' = [pc EXCEPT ![submitted + 1] = "queued"]
    /\ IF submitted + 1 = num_jobs
       THEN exec' = "collecting" /\ results' = [i \in Jobs |-> None]
       ELSE UNCHANGED <<exec, results>>
    /\ UNCHANGED <<monVars, planVars, msgVars, userVars, createVars, outcome, intervene, wait, printed, svcVars, now, log>>

\* f"{submission_advance:.1f}": only a number can be formatted.
FormatsAsFloat(arg) == arg.ptype \in NumberTypes

\* Which finished futures as_completed may hand out next.
AsCompleted(i) ==
    /\ i \in Jobs
    /\ pc[i] = "done"
    /\ \A k \in 1..Len(printed) : printed[k] # i

\* Which slot of results the outcome of future i is stored in.
ResultIndex(i) == i

\* One round of the as_completed loop: store the future's result in its slot
\* and print it; a print that fails leaves the loop with the exception.
AtExecuteCollect(i) ==
    /\ exec = "collecting"
    /\ AsCompleted(i)
    /\ results' = [results EXCEPT ![ResultIndex(i)] = outcome[i]]
    /\ IF FormatsAsFloat(intervene_args_all[i].submission_advance)
       THEN printed' = Append(printed, i) /\ exec' = exec
       ELSE printed' = printed /\ exec' = "aborting"
    /\ UNCHANGED <<monVars, planVars, msgVars, userVars, createVars, jobVars, submitted, svcVars, now, log>>

\* A loop that is left after the first future.
LoopDone_First == Len(printed) >= 1

\* When the as_completed loop is over.
LoopDone == Len(printed) = num_jobs

\* The loop is over and the pool is left: shutdown(wait=True) joins the workers.
ExecuteReturn ==
    /\ exec = "collecting"
    /\ LoopDone
    /\ \A i \in Jobs : Finished(i)
    /\ exec' = "returned"
    /\ UNCHANGED <<monVars, planVars, msgVars, userVars, createVars, jobVars, submitted, results, printed, svcVars, now, log>>

\* The exception of a failed print leaves the pool, which first joins the
\* workers, and then leaves execute.
ExecuteAbort ==
    /\ exec = "aborting"
    /\ \A i \in Jobs : Finished(i)
    /\ exec' = "raised"
    /\ UNCHANGED <<monVars, planVars, msgVars, userVars, createVars, jobVars, submitted, results, printed, svcVars, now, log>>

\* ------------------------------------------- MultiReservationScheduler.worker
\* A pool of one thread.
max_workers_One == Min(1, num_jobs)

\* ThreadPoolExecutor(max_workers=self.num_jobs): how many workers run at once.
max_workers == num_jobs

\* The jobs whose worker is running in a thread of the pool.
Running == {j \in Jobs : pc[j] \notin {"idle", "queued", "done", "raised"}}

\* A thread of the pool takes the job up: Intervene(**intervene_args), the
\* plan of schedule.py.
AtWorkerBuildPlan(i) ==
    /\ pc[i] = "queued"
    /\ Cardinality(Running) < max_workers
    /\ LET r == ScheduleInterveneInit(intervene_args_all[i])
       IN  IF r = "ok"
           THEN /\ intervene' = [intervene EXCEPT
                        ![i] = PlanObject("schedule", intervene_args_all[i])]
                /\ pc' = [pc EXCEPT ![i] = "set_intervene"]
                /\ UNCHANGED outcome
           ELSE /\ Raise(i, r)
                /\ UNCHANGED intervene
    /\ UNCHANGED <<monVars, planVars, msgVars, userVars, createVars, wait, execVars, svcVars, now, log>>

\* ReservationService.set_intervene's param_check: isinstance(intervene,
\* Intervene), with the Intervene of reservation.py.
set_intervene(p) == p.cls = "reservation"

\* ReservationService(...) and set_intervene(intervene), in the worker or in
\* the caller's thread.
AtSetIntervene(i) ==
    /\ pc[i] = "set_intervene"
    /\ IF set_intervene(intervene[i])
       THEN pc' = [pc EXCEPT ![i] = "go"] /\ UNCHANGED outcome
       ELSE Raise(i, "TypeError: intervene")
    /\ UNCHANGED <<monVars, planVars, msgVars, userVars, createVars, intervene, wait, execVars, svcVars, now, log>>

\* ------------------------------------------------------- the caller's thread
\* main.py: ReservationService(...), then Intervene(...) of reservation.py and
\* set_intervene, then go(); or go() with no plan; or submit_request() on the
\* new session.
AtDirectBegin(i) ==
    /\ caller = "direct"
    /\ pc[i] = "idle"
    /\ CASE entry[i] = "go" ->
                LET r == ReservationInterveneInit(intervene_args_all[i])
                IN  IF r = "ok"
                    THEN /\ intervene' = [intervene EXCEPT
                                ![i] = PlanObject("reservation", intervene_args_all[i])]
                         /\ pc' = [pc EXCEPT ![i] = "set_intervene"]
                         /\ UNCHANGED outcome
                    ELSE Raise(i, r) /\ UNCHANGED intervene
         [] entry[i] = "go_noplan" ->
                pc' = [pc EXCEPT ![i] = "go"] /\ UNCHANGED <<outcome, intervene>>
         [] OTHER ->
                pc' = [pc EXCEPT ![i] = "submit"] /\ UNCHANGED <<outcome, intervene>>
    /\ UNCHANGED <<monVars, planVars, msgVars, userVars, createVars, wait, execVars, svcVars, now, log>>

\* An Intervene object of the class named by the entry is built, and its two
\* pauses are called one after the other.
AtPlanBegin(i) ==
    /\ caller = "plan"
    /\ pc[i] = "idle"
    /\ LET r == IF entry[i] = "schedule"
                THEN ScheduleInterveneInit(intervene_args_all[i])
                ELSE ReservationInterveneInit(intervene_args_all[i])
       IN  IF r = "ok"
           THEN /\ intervene' = [intervene EXCEPT
                        ![i] = PlanObject(entry[i], intervene_args_all[i])]
                /\ pc' = [pc EXCEPT ![i] = "plan_built"]
                /\ UNCHANGED outcome
           ELSE Raise(i, r) /\ UNCHANGED intervene
    /\ UNCHANGED <<monVars, planVars, msgVars, userVars, createVars, wait, execVars, svcVars, now, log>>

\* ------------------------------------------------------ Intervene: the waits
\* The two classes have the same methods; the plan object's class says which
\* one a call runs.
\* A server time that leaves the offset out.
get_server_time_Local(p, clock) == clock

\* schedule.Intervene.get_server_time, with the local clock at `clock`.
schedule_get_server_time(p, clock) == clock + p.time_offset

\* reservation.Intervene.get_server_time, with the local clock at `clock`.
reservation_get_server_time(p, clock) == clock + p.time_offset

\* datetime.fromtimestamp(t): "ok", or the exception it raises.
fromtimestamp(t) == IF t > MaxDatetime THEN "ValueError: year out of range" ELSE "ok"

\* schedule.Intervene.wait_until does nothing before its loop.
schedule_wait_until_begins(p, target, clock) == "ok"

\* reservation.Intervene.wait_until, before its loop: with time left, the
\* target is converted by datetime.fromtimestamp and printed.  "ok", or the
\* exception raised.
reservation_wait_until_begins(p, target, clock) ==
    IF target - reservation_get_server_time(p, clock) > 0
    THEN fromtimestamp(target)
    ELSE "ok"

wait_until_begins(p, target, clock) ==
    IF p.cls = "schedule" THEN schedule_wait_until_begins(p, target, clock)
    ELSE reservation_wait_until_begins(p, target, clock)

\* wait_until's loop test: whether the poll at `clock` ends the wait.
schedule_wait_until_returns(p, target, clock) ==
    target - schedule_get_server_time(p, clock) <= 0

\* A loop that goes on at the deadline itself.
reservation_wait_until_returns_Strict(p, target, clock) ==
    target - reservation_get_server_time(p, clock) < 0

reservation_wait_until_returns(p, target, clock) ==
    target - reservation_get_server_time(p, clock) <= 0

wait_until_returns(p, target, clock) ==
    IF p.cls = "schedule" THEN schedule_wait_until_returns(p, target, clock)
    ELSE reservation_wait_until_returns(p, target, clock)

\* The deadline and the poll interval (in hundredths of a tick) that
\* pause_before_request_creation gives wait_until.
schedule_pause_before_request_creation(p) ==
    [target |-> p.target_timestamp - p.creation_advance,
     poll |-> Min(100 * Seconds(1), 10 * p.creation_advance)]

reservation_pause_before_request_creation(p) ==
    [target |-> p.target_timestamp - p.creation_advance,
     poll |-> Min(100 * Seconds(1), 10 * p.creation_advance)]

\* A creation pause that waits for the target itself.
pause_before_request_creation_AtTarget(p) ==
    [target |-> p.target_timestamp,
     poll |-> Min(100 * Seconds(1), 10 * p.creation_advance)]

\* A creation pause that polls once a second, whatever the lead.
pause_before_request_creation_Coarse(p) ==
    [target |-> p.target_timestamp - p.creation_advance,
     poll |-> 100 * Seconds(1)]

pause_before_request_creation(p) ==
    IF p.cls = "schedule" THEN schedule_pause_before_request_creation(p)
    ELSE reservation_pause_before_request_creation(p)

\* The deadline and the poll interval (in hundredths of a tick) that
\* pause_before_request_submission gives wait_until.
schedule_pause_before_request_submission(p) ==
    [target |-> p.target_timestamp - p.submission_advance,
     poll |-> Min(Seconds(1) \div 10, p.submission_advance)]

reservation_pause_before_request_submission(p) ==
    [target |-> p.target_timestamp - p.submission_advance,
     poll |-> Min(Seconds(1) \div 10, p.submission_advance)]

\* A submission pause that waits for the creation deadline.
pause_before_request_submission_Early(p) ==
    [target |-> p.target_timestamp - p.creation_advance,
     poll |-> Min(Seconds(1) \div 10, p.submission_advance)]

pause_before_request_submission(p) ==
    IF p.cls = "schedule" THEN schedule_pause_before_request_submission(p)
    ELSE reservation_pause_before_request_submission(p)

BeginWait(phase, call) ==
    [phase |-> phase, target |-> call.target, poll |-> call.poll,
     asleep |-> FALSE, wake |-> 0]

\* A clock read `now` stays the same for less than a tick: a sleep of d
\* hundredths of a tick can be over d \div 100 ticks later.
WakeTime(clock, poll) == clock + (poll \div 100)

\* Where the thread that called a pause goes when the pause returns.
AfterPause(i) ==
    IF pc[i] = "creation_pause"
    THEN IF caller = "plan" THEN "submission_pause" ELSE "create"
    ELSE "done"

\* Job i's own thread calls a pause: wait_until begins, and enters its loop
\* or raises.
BeginPause(i, phase, call) ==
    LET begun == wait_until_begins(intervene[i], call.target, now)
    IN  IF begun = "ok"
        THEN /\ wait' = [wait EXCEPT ![i] = BeginWait(phase, call)]
             /\ pc' = [pc EXCEPT ![i] = IF phase = "creation" THEN "creation_pause"
                                       ELSE "submission_pause"]
             /\ UNCHANGED outcome
        ELSE /\ wait' = [wait EXCEPT ![i] = NoWait]
             /\ Raise(i, begun)

\* One round of wait_until's loop in job i: return, or go to sleep.
AtWaitPoll(i) ==
    /\ wait[i].phase # "none"
    /\ ~wait[i].asleep
    /\ IF wait_until_returns(intervene[i], wait[i].target, now)
       THEN /\ Logged(i, IF wait[i].phase = "creation"
                         THEN "creation_waited" ELSE "submission_waited")
            /\ IF hpc[i] = "submission_pause"
               THEN /\ hpc' = [hpc EXCEPT ![i] = "emit"]
                    /\ wait' = [wait EXCEPT ![i] = NoWait]
                    /\ UNCHANGED <<pc, outcome>>
               ELSE /\ hpc' = hpc
                    /\ IF AfterPause(i) = "submission_pause"
                       THEN BeginPause(i, "submission",
                                      pause_before_request_submission(intervene[i]))
                       ELSE /\ wait' = [wait EXCEPT ![i] = NoWait]
                            /\ IF AfterPause(i) = "done"
                               THEN Return(i, None)
                               ELSE /\ pc' = [pc EXCEPT ![i] = AfterPause(i)]
                                    /\ UNCHANGED outcome
       ELSE /\ wait' = [wait EXCEPT ![i].asleep = TRUE,
                                    ![i].wake = WakeTime(now, wait[i].poll)]
            /\ UNCHANGED <<pc, outcome, hpc, log>>
    /\ UNCHANGED <<monVars, planVars, msgVars, userVars, createVars, intervene, execVars, ticket, res, posts,
                   connections, emits, replies, now>>

\* time.sleep(poll_interval) is over.
AtWaitWake(i) ==
    /\ wait[i].phase # "none"
    /\ wait[i].asleep
    /\ now >= wait[i].wake
    /\ wait' = [wait EXCEPT ![i].asleep = FALSE]
    /\ UNCHANGED <<monVars, planVars, msgVars, userVars, createVars, pc, outcome, intervene, execVars, svcVars, now, log>>

\* The local clock moves forward.  It is read by wait_until alone, so it is
\* moved only while some wait is in progress.
Tick ==
    /\ \E i \in Jobs : wait[i].phase # "none"
    /\ now < MaxTime
    /\ \E t \in (now + 1)..MaxTime : now' = t
    /\ UNCHANGED <<monVars, planVars, msgVars, userVars, createVars, jobVars, execVars, svcVars, log>>

\* The plan alone: pause_before_request_creation() is called.
AtPlanPause(i) ==
    /\ pc[i] = "plan_built"
    /\ BeginPause(i, "creation", pause_before_request_creation(intervene[i]))
    /\ UNCHANGED <<monVars, planVars, msgVars, userVars, createVars, intervene, execVars, svcVars, now, log>>

\* --------------------------------------------------- ReservationService.go
\* A go() that never pauses.
GoPauses_Never(i) == FALSE

\* Whether go() pauses before create_request.
GoPauses(i) == intervene[i] # NoPlan

\* go(): pause_before_request_creation() when a plan is installed.
AtGoBegin(i) ==
    /\ pc[i] = "go"
    /\ IF GoPauses(i)
       THEN BeginPause(i, "creation", pause_before_request_creation(intervene[i]))
       ELSE /\ pc' = [pc EXCEPT ![i] = "create"]
            /\ UNCHANGED <<wait, outcome>>
    /\ UNCHANGED <<monVars, planVars, msgVars, userVars, createVars, intervene, execVars, svcVars, now, log>>

\* ----------------------------------------- ReservationService.create_request
\* A session that runs alone, in its caller's thread.
SoleSession == num_jobs = 1

\* Attempts share nothing but the clock, the User and the Equipment.  What
\* the remote side and the network can do wrong (a refusal, an error, a lost
\* transport, a malformed reply) is explored for the attempts of execute and
\* for a session that runs alone; sessions that caller threads run side by
\* side are answered everything, with a success or a failure.
RemoteFaults == caller # "direct" \/ SoleSession

\* User.is_cookie_valid: every key of COOKIE_KEYS is in self.cookies.
is_cookie_valid == cookies

\* Where get_cookies was called (in get_calendar_id or in create_request),
\* and where the thread is inside it.
InGetCookies(i) == pc[i] \in {"calendar_cookies", "cookies"} /\ uc[i] = "test"
InLogin(i) == pc[i] \in {"calendar_cookies", "cookies"} /\ uc[i] = "login"

\* Where the caller of get_cookies goes on when it returns.
AfterCookies(i) ==
    IF pc[i] = "calendar_cookies" THEN "calendar_get" ELSE "post"

\* create_request calls self.equipment.get_calendar_id(), which returns the
\* cached id or goes on to fetch it, and then self.user.get_cookies().
AtGetCalendarId(i) ==
    /\ pc[i] = "create"
    /\ pc' = [pc EXCEPT ![i] = IF calendar_id THEN "cookies" ELSE "calendar_cookies"]
    /\ UNCHANGED <<monVars, planVars, msgVars, userVars, createVars, outcome, intervene, wait,
                   execVars, svcVars, now, log>>

\* User.get_cookies: the test of is_cookie_valid().
AtGetCookies(i) ==
    /\ InGetCookies(i)
    /\ uc' = [uc EXCEPT ![i] = IF is_cookie_valid THEN "return" ELSE "login"]
    /\ UNCHANGED <<monVars, planVars, msgVars, login_cookies, got_cookies, createVars, jobVars,
                   execVars, svcVars, now, log>>

\* What Credential.login can end in: cookies with every key, cookies that
\* lack one, or an exception.
LoginResults == {"complete", "incomplete", "raises"}

\* User.get_cookies: self.credentials.login(), and the cookies it returns
\* stored in self.cookies.  A login that raises is a fault of the remote
\* side; which cookies a login returns is up to the credential.
AtLogin(i) ==
    /\ InLogin(i)
    /\ logins' = logins + 1
    /\ \E result \in (IF RemoteFaults THEN LoginResults ELSE {"complete", "incomplete"}) :
        IF result = "raises"
        THEN /\ Raise(i, "RuntimeError: login")
             /\ uc' = [uc EXCEPT ![i] = "test"]
             /\ UNCHANGED <<cookies, login_cookies>>
        ELSE /\ login_cookies' = [login_cookies EXCEPT ![i] = result]
             /\ cookies' = (result = "complete")
             /\ uc' = [uc EXCEPT ![i] = "recheck"]
             /\ UNCHANGED <<pc, outcome>>
    /\ UNCHANGED <<monVars, planVars, msgVars, got_cookies, response, calendar_id, intervene,
                   wait, execVars, svcVars, now, log>>

\* User.get_cookies: the second test of is_cookie_valid(), after the login.
AtRecheckCookies(i) ==
    /\ pc[i] \in {"calendar_cookies", "cookies"}
    /\ uc[i] = "recheck"
    /\ IF is_cookie_valid
       THEN /\ uc' = [uc EXCEPT ![i] = "return"]
            /\ UNCHANGED <<pc, outcome>>
       ELSE /\ uc' = [uc EXCEPT ![i] = "test"]
            /\ Raise(i, "RuntimeError: invalid cookie")
    /\ UNCHANGED <<monVars, planVars, msgVars, login_cookies, got_cookies, createVars, intervene,
                   wait, execVars, svcVars, now, log>>

\* User.get_cookies: `return self.cookies`, whatever self.cookies is by now.
AtReturnCookies(i) ==
    /\ pc[i] \in {"calendar_cookies", "cookies"}
    /\ uc[i] = "return"
    /\ got_cookies' = [got_cookies EXCEPT ![i] =
            IF is_cookie_valid THEN "complete" ELSE "incomplete"]
    /\ uc' = [uc EXCEPT ![i] = "test"]
    /\ pc' = [pc EXCEPT ![i] = AfterCookies(i)]
    /\ UNCHANGED <<monVars, planVars, msgVars, login_cookies, createVars, outcome, intervene,
                   wait, execVars, svcVars, now, log>>

\* What the equipment page answers: a page that names the calendar id, or
\* anything else (no connection, 401, 404, a page without the id).
CalendarResponses == {"found", "not_found"}

\* What a request of job i with the cookies it got may be answered: the
\* remote side refuses cookies that lack a key.
CalendarAnswers(i) ==
    IF got_cookies[i] = "incomplete" THEN {"not_found"}
    ELSE IF RemoteFaults THEN CalendarResponses ELSE {"found"}

\* Equipment.get_calendar_id: requests.get and the search for calendar_id=.
AtCalendarGet(i) ==
    /\ pc[i] = "calendar_get"
    /\ \E page \in CalendarAnswers(i) :
        IF page = "found"
        THEN /\ calendar_id' = TRUE
             /\ pc' = [pc EXCEPT ![i] = "cookies"]
             /\ UNCHANGED outcome
        ELSE /\ calendar_id' = calendar_id
             /\ Raise(i, "RuntimeError: equipment info")
    /\ UNCHANGED <<monVars, planVars, msgVars, userVars, response, cookies, logins, intervene, wait, execVars,
                   svcVars, now, log>>

\* What the remote side (or the network) answers to the creation request.
CreateResponses ==
    {"form", "form_without_ticketId", "transport_error", "401", "alert",
     "alert_unparsed", "error_dialog", "dialog_without_error_box",
     "other_json", "not_json", "other_status"}

\* A create_request that posts again after a transport failure.
PostsPerRequest_Retry(answer) == IF answer = "transport_error" THEN 2 ELSE 1

\* How many times create_request calls requests.post for one answer.
PostsPerRequest(answer) == 1

\* The session's ticket fields after the answer has been handled.
TicketAfter(answer) ==
    CASE answer = "form" ->
            [request_data |-> TRUE, ticket |-> TRUE, ticket_id |-> TRUE]
      [] answer = "form_without_ticketId" ->
            [request_data |-> TRUE, ticket |-> TRUE, ticket_id |-> FALSE]
      [] OTHER -> NoTicket

\* "ok", or the exception create_request raises for the answer.  An alert
\* that is not of the form alert("...") and a dialog with no form_error_box
\* make re.search return None, whose .group is an AttributeError.
CreateError(answer) ==
    CASE answer = "form" -> "ok"
      [] answer = "form_without_ticketId" -> "KeyError: ticketId"
      [] answer = "transport_error" -> "RuntimeError: create: network"
      [] answer = "401" -> "RuntimeError: create: 401 Unauthorized"
      [] answer = "alert" -> "RuntimeError: create: 200 OK: alert text"
      [] answer = "alert_unparsed" -> "AttributeError: NoneType.group"
      [] answer = "error_dialog" -> "RuntimeError: create: 200 OK: dialog text"
      [] answer = "dialog_without_error_box" -> "AttributeError: NoneType.group"
      [] answer = "other_json" -> "RuntimeError: create: 200 OK: unknown"
      [] answer = "not_json" -> "RuntimeError: create: 200 OK: unknown"
      [] OTHER -> "RuntimeError: create: unexpected status"

CreateAnswers(i) ==
    IF got_cookies[i] = "incomplete" THEN {"401"}
    ELSE IF RemoteFaults THEN CreateResponses ELSE {"form"}

\* create_request: the request is posted and the answer handled.
AtCreateRequest(i) ==
    /\ pc[i] = "post"
    /\ \E answer \in CreateAnswers(i) :
        /\ response' = [response EXCEPT ![i] = answer]
        /\ posts' = [posts EXCEPT ![i] = @ + PostsPerRequest(answer)]
        /\ ticket' = [ticket EXCEPT ![i] = TicketAfter(answer)]
        /\ IF CreateError(answer) = "ok"
           THEN /\ pc' = [pc EXCEPT ![i] = "submit"]
                /\ UNCHANGED outcome
                /\ log' = [log EXCEPT ![i] = @ \o <<"post", "ticket">>]
           ELSE /\ Raise(i, CreateError(answer))
                /\ Logged(i, "post")
    /\ UNCHANGED <<monVars, planVars, msgVars, userVars, cookies, logins, calendar_id, intervene, wait,
                   execVars, hpc, res, connections, emits, replies, now>>

\* ----------------------------------------- ReservationService.submit_request
\* Ticket fields that exist from the start.
HasTicket_Unchecked(i) == TRUE

\* Building form_submit reads self.request_data, self.ticket_id and
\* self.ticket, which exist only once create_request has set them.
HasTicket(i) == ticket[i].request_data /\ ticket[i].ticket_id /\ ticket[i].ticket

\* Python's {**a, **b}: the keys of both, with b's value where both have the key.
Merge(a, b) == b @@ a

\* A value of a dictionary is modelled by where it comes from: "default" and
\* "base" (form.py), "caller" (the Reservation and its Form), "issued" (the
\* form the remote side issued with the ticket), "hack" (the Hack object).
FORM_DEFAULTS ==
    ("name" :> "default") @@ ("description" :> "default") @@ ("project" :> "default")
        @@ ("fund_card_no" :> "default") @@ ("count" :> "default")
FORM_BASE ==
    ("_ajax" :> "base") @@ ("_object" :> "base") @@ ("_event" :> "base")
        @@ ("submit" :> "base") @@ ("component_id" :> "base")

\* Form.__init__: self.data.
Form(form) == Merge(Merge(FORM_DEFAULTS, form), FORM_BASE)

\* Reservation.get_request_creation_data and get_request_submission_data.
get_request_creation_data(reservation) ==
    Merge(reservation.form, ("dtstart" :> "caller") @@ ("dtend" :> "caller"))

get_request_submission_data(reservation) ==
    IF reservation.component_id # ""
    THEN "component_id" :> reservation.component_id
    ELSE EmptyDict

\* Hack.get_request_submission_data, with the module's ENABLE_HACK.
hack_get_request_submission_data(hack, ENABLE_HACK) ==
    IF ~ENABLE_HACK THEN EmptyDict
    ELSE IF hack.current_user_id # "" THEN "currentUserId" :> hack.current_user_id
    ELSE EmptyDict

\* A form_submit in which the reservation's data come after the ticket id.
BuildFormSubmit_TicketFirst(request_data, ticket_id, reservation, hack, ENABLE_HACK) ==
    LET form == Merge(Merge(Merge(request_data, "ticketId" :> ticket_id),
                            get_request_creation_data(reservation)),
                      get_request_submission_data(reservation))
    IN  IF hack.is_none THEN form
        ELSE Merge(form, hack_get_request_submission_data(hack, ENABLE_HACK))

\* submit_request: the form_submit dictionary.
BuildFormSubmit(request_data, ticket_id, reservation, hack, ENABLE_HACK) ==
    LET form == Merge(Merge(Merge(request_data,
                                  get_request_creation_data(reservation)),
                            get_request_submission_data(reservation)),
                      "ticketId" :> ticket_id)
    IN  IF hack.is_none THEN form
        ELSE Merge(form, hack_get_request_submission_data(hack, ENABLE_HACK))

\* The forms the remote side may have issued with the ticket (the ticketId
\* alone, or with fields the caller and the Hack also name), the Reservation
\* and the Hack a session may have been built with.  Their content is read
\* by submit_request alone, so it is chosen where it is read.
IssuedTicketId == "issued"
IssuedForms ==
    {"ticketId" :> IssuedTicketId,
     ("ticketId" :> IssuedTicketId) @@ ("component_id" :> "issued")
        @@ ("currentUserId" :> "issued") @@ ("dtstart" :> "issued")}
CallerForms ==
    {EmptyDict,
     ("ticketId" :> "caller") @@ ("currentUserId" :> "caller") @@ ("name" :> "caller")}
Reservations ==
    {[form |-> Form(f), component_id |-> c] : f \in CallerForms, c \in {"", "caller"}}
NoHack == [is_none |-> TRUE, current_user_id |-> ""]
Hacks == {NoHack} \cup {[is_none |-> FALSE, current_user_id |-> u] : u \in {"", "hack"}}

\* A session that runs alone is built with any of these; sessions that run
\* side by side are built with an empty form and no Hack.
SessionInputs ==
    IF SoleSession
    THEN IssuedForms \X Reservations \X Hacks \X BOOLEAN
    ELSE {<<"ticketId" :> IssuedTicketId,
            [form |-> Form(EmptyDict), component_id |-> ""], NoHack, FALSE>>}

\* submit_request up to the socketio.Client() it makes.
AtSubmitBegin(i) ==
    /\ pc[i] = "submit"
    /\ IF HasTicket(i)
       THEN /\ pc' = [pc EXCEPT ![i] = "connect"]
            /\ res' = [res EXCEPT ![i] = NoRes]
            /\ \E in \in SessionInputs :
                    form_submit' = [form_submit EXCEPT ![i] =
                        BuildFormSubmit(in[1], in[1]["ticketId"], in[2], in[3], in[4])]
            /\ UNCHANGED outcome
       ELSE /\ Raise(i, "AttributeError: no ticket")
            /\ UNCHANGED <<res, form_submit>>
    /\ UNCHANGED <<monVars, planVars, userVars, createVars, intervene, wait, execVars, ticket, hpc, posts,
                   connections, emits, replies, now, log>>

\* sio.connect(url): the connection is established and the client's event
\* thread enters the connect handler; the caller's thread goes on to sio.wait().
AtSioConnect(i) ==
    /\ pc[i] = "connect"
    /\ pc' = [pc EXCEPT ![i] = "sio"]
    /\ hpc' = [hpc EXCEPT ![i] = "connect_handler"]
    /\ connections' = [connections EXCEPT ![i] = @ + 1]
    /\ Logged(i, "connected")
    /\ UNCHANGED <<monVars, planVars, msgVars, userVars, createVars, outcome, intervene, wait, execVars, ticket, res,
                   posts, emits, replies, now>>

\* sio.connect(url) fails: the connect_error handler runs and sio.connect
\* raises ConnectionError.
AtSioConnectError(i) ==
    /\ pc[i] = "connect"
    /\ RemoteFaults
    /\ res' = [res EXCEPT ![i].message = "Connection error"]
    /\ Raise(i, "ConnectionError")
    /\ Logged(i, "connect_error")
    /\ UNCHANGED <<monVars, planVars, msgVars, userVars, createVars, intervene, wait, execVars, ticket, hpc, posts,
                   connections, emits, replies, now>>

\* A connect handler that emits at once.
ConnectPauses_Never(i) == FALSE

\* Whether the connect handler pauses before it emits.
ConnectPauses(i) == intervene[i] # NoPlan

\* The connect handler: pause_before_request_submission() when a plan is
\* installed.  An exception of the handler is logged by the client, which
\* stays connected; nothing is emitted.
AtHandlerConnect(i) ==
    /\ hpc[i] = "connect_handler"
    /\ IF ConnectPauses(i)
       THEN LET call == pause_before_request_submission(intervene[i])
            IN  IF wait_until_begins(intervene[i], call.target, now) = "ok"
                THEN /\ hpc' = [hpc EXCEPT ![i] = "submission_pause"]
                     /\ wait' = [wait EXCEPT ![i] = BeginWait("submission", call)]
                ELSE /\ hpc' = [hpc EXCEPT ![i] = "listening"]
                     /\ UNCHANGED wait
       ELSE /\ hpc' = [hpc EXCEPT ![i] = "emit"]
            /\ UNCHANGED wait
    /\ UNCHANGED <<monVars, planVars, msgVars, userVars, createVars, pc, outcome, intervene, execVars, ticket, res,
                   posts, connections, emits, replies, now, log>>

\* The connect handler: sio.emit("yiqikong-reserv", message).
AtHandlerEmit(i) ==
    /\ hpc[i] = "emit"
    /\ hpc' = [hpc EXCEPT ![i] = "listening"]
    /\ emits' = [emits EXCEPT ![i] = @ + 1]
    /\ Logged(i, "emit")
    /\ UNCHANGED <<monVars, planVars, msgVars, userVars, createVars, jobVars, execVars, ticket, res, posts,
                   connections, replies, now>>

\* What a 'yiqikong-reserv-reback' message can hold.
ReplyKinds == {"success", "failure", "failure_without_error_msg"}

\* on_message: the reply sets res and disconnects; a failure that carries no
\* error_msg is a KeyError in the handler, before sio.disconnect().
AtOnMessage(i) ==
    /\ hpc[i] = "listening"
    /\ replies[i] <= MaxReconnects
    /\ \E data \in (IF RemoteFaults THEN ReplyKinds ELSE {"success", "failure"}) :
        /\ res' = [res EXCEPT ![i] =
                CASE data = "success" ->
                        [@ EXCEPT !.success = TRUE, !.component_id = "cid"]
                  [] data = "failure" -> [@ EXCEPT !.message = "error_msg"]
                  [] OTHER -> @]
        /\ hpc' = [hpc EXCEPT ![i] =
                IF data = "failure_without_error_msg" THEN "listening" ELSE "closed"]
    /\ replies' = [replies EXCEPT ![i] = @ + 1]
    /\ Logged(i, "reply")
    /\ UNCHANGED <<monVars, planVars, msgVars, userVars, createVars, jobVars, execVars, ticket, posts, connections,
                   emits, now>>

\* The error handler: res gets a message and the client disconnects.
AtOnError(i) ==
    /\ hpc[i] = "listening"
    /\ RemoteFaults
    /\ res' = [res EXCEPT ![i].message = "Unexpected error"]
    /\ hpc' = [hpc EXCEPT ![i] = "closed"]
    /\ UNCHANGED <<monVars, planVars, msgVars, userVars, createVars, jobVars, execVars, ticket, posts, connections,
                   emits, replies, now, log>>

\* The transport is lost.  The client made by socketio.Client() reconnects
\* (reconnection=True is the default) and the connect handler runs again; or
\* the reconnection fails, and the connect_error handler disconnects.
AtTransportLost(i) ==
    /\ hpc[i] = "listening"
    /\ RemoteFaults
    /\ \/ /\ connections[i] <= MaxReconnects
          /\ hpc' = [hpc EXCEPT ![i] = "connect_handler"]
          /\ connections' = [connections EXCEPT ![i] = @ + 1]
          /\ Logged(i, "connected")
          /\ UNCHANGED res
       \/ /\ hpc' = [hpc EXCEPT ![i] = "closed"]
          /\ res' = [res EXCEPT ![i].message = "Connection error"]
          /\ UNCHANGED <<connections, log>>
    /\ UNCHANGED <<monVars, planVars, msgVars, userVars, createVars, jobVars, execVars, ticket, posts, emits, replies, now>>

\* The server disconnects the client: no reconnection follows.
AtServerDisconnect(i) ==
    /\ hpc[i] = "listening"
    /\ RemoteFaults
    /\ hpc' = [hpc EXCEPT ![i] = "closed"]
    /\ UNCHANGED <<monVars, planVars, msgVars, userVars, createVars, jobVars, execVars, ticket, res, posts, connections,
                   emits, replies, now, log>>

\* sio.wait() returns once the client is disconnected; submit_request raises
\* unless res holds a success, and go() returns None after it.
AtSubmitEnd(i) ==
    /\ pc[i] = "sio"
    /\ hpc[i] = "closed"
    /\ IF res[i].success
       THEN Return(i, None)
       ELSE Raise(i, IF res[i].message = "" THEN "RuntimeError: submit:"
                     ELSE "RuntimeError: submit: message")
    /\ UNCHANGED <<monVars, planVars, msgVars, userVars, createVars, intervene, wait, execVars, svcVars, now, log>>

\* ------------------------------------------------------------ ThreadMonitor
\* A lock that anyone can take at any time.
CanAcquire_Unlocked(t) == TRUE

\* `with self.lock`: whether thread t can take the lock now.
CanAcquire(t) == lock = NoThread

\* The name a thread prints under: self.thread_name_mapping.get(name, name).
LogicalName(t) ==
    IF t \in DOMAIN thread_name_mapping THEN thread_name_mapping[t] ELSE t

\* The message of the k-th write of thread t.
Message(t, k) == [thread |-> t, seq |-> k]

\* The name thread t has registered for itself by now (its own otherwise);
\* only t itself registers a name for t.
RegisteredAs(t) ==
    IF t \in DOMAIN thread_name_mapping THEN thread_name_mapping[t] ELSE t

\* write(message) is called by thread t and takes the lock.
AtMonitorWrite(t) ==
    /\ mpc[t] = "idle"
    /\ Len(sent[t]) < MaxWrites
    /\ CanAcquire(t)
    /\ lock' = t
    /\ mpc' = [mpc EXCEPT ![t] = "write"]
    /\ sent' = [sent EXCEPT ![t] = Append(@, RegisteredAs(t))]
    /\ UNCHANGED <<attemptVars, thread_name_mapping, thread_data, main_thread_output, frame>>

\* write: the logical name is looked up and the buffer it selects is read.
AtMonitorLookup(t) ==
    /\ mpc[t] = "write"
    /\ LET target_thread_name == LogicalName(t)
       IN  frame' = [frame EXCEPT ![t] =
                [target_thread_name |-> target_thread_name,
                 buffer |-> IF target_thread_name \in DOMAIN thread_data
                            THEN thread_data[target_thread_name]
                            ELSE IF target_thread_name = MainThread
                            THEN main_thread_output
                            ELSE <<>>]]
    /\ mpc' = [mpc EXCEPT ![t] =
            IF LogicalName(t) \in DOMAIN thread_data THEN "append"
            ELSE IF LogicalName(t) = MainThread THEN "append_main"
            ELSE "create"]
    /\ UNCHANGED <<attemptVars, thread_name_mapping, thread_data, main_thread_output,
                   lock, sent>>

\* write: the buffer with the message appended is stored (or a new buffer is
\* made of the message), the display is refreshed and the lock released.
AtMonitorStore(t) ==
    /\ mpc[t] \in {"append", "append_main", "create"}
    /\ LET message == Message(t, Len(sent[t]))
       IN  IF mpc[t] = "append_main"
           THEN /\ main_thread_output' = Append(frame[t].buffer, message)
                /\ UNCHANGED thread_data
           ELSE /\ thread_data' = Merge(thread_data,
                        frame[t].target_thread_name :>
                            (IF mpc[t] = "append" THEN Append(frame[t].buffer, message)
                             ELSE <<message>>))
                /\ UNCHANGED main_thread_output
    /\ lock' = IF lock = t THEN NoThread ELSE lock
    /\ mpc' = [mpc EXCEPT ![t] = "idle"]
    /\ frame' = [frame EXCEPT ![t] = NoFrame]
    /\ UNCHANGED <<attemptVars, thread_name_mapping, sent>>

\* The names the connect handler registers the event thread as: the name of
\* the thread that called submit_request.
RegisteredNames == MonitorThreads \ {EventThread}

\* register_thread_as(target_thread_name) is called by the event thread,
\* once, and takes the lock.
AtMonitorRegister(t) ==
    /\ t = EventThread
    /\ mpc[t] = "idle"
    /\ t \notin DOMAIN thread_name_mapping
    /\ CanAcquire(t)
    /\ lock' = t
    /\ mpc' = [mpc EXCEPT ![t] = "register"]
    /\ \E target_thread_name \in RegisteredNames :
            frame' = [frame EXCEPT ![t].target_thread_name = target_thread_name]
    /\ UNCHANGED <<attemptVars, thread_name_mapping, thread_data, main_thread_output, sent>>

\* register_thread_as: the name is stored and the lock released.
AtMonitorRegistered(t) ==
    /\ mpc[t] = "register"
    /\ thread_name_mapping' =
            Merge(thread_name_mapping, t :> frame[t].target_thread_name)
    /\ lock' = IF lock = t THEN NoThread ELSE lock
    /\ mpc' = [mpc EXCEPT ![t] = "idle"]
    /\ frame' = [frame EXCEPT ![t] = NoFrame]
    /\ UNCHANGED <<attemptVars, thread_data, main_thread_output, sent>>

\* ------------------------------------------------------------ specification
MonitorWrite == \E t \in MonitorThreads : AtMonitorWrite(t)

MonitorLookup == \E t \in MonitorThreads : AtMonitorLookup(t)

MonitorStore == \E t \in MonitorThreads : AtMonitorStore(t)

MonitorRegister == \E t \in MonitorThreads : AtMonitorRegister(t)

MonitorRegistered == \E t \in MonitorThreads : AtMonitorRegistered(t)

ExecuteCollect == \E i \in Jobs : AtExecuteCollect(i)

WorkerBuildPlan == \E i \in Jobs : AtWorkerBuildPlan(i)

SetIntervene == \E i \in Jobs : AtSetIntervene(i)

DirectBegin == \E i \in Jobs : AtDirectBegin(i)

PlanBegin == \E i \in Jobs : AtPlanBegin(i)

PlanPause == \E i \in Jobs : AtPlanPause(i)

WaitPoll == \E i \in Jobs : AtWaitPoll(i)

WaitWake == \E i \in Jobs : AtWaitWake(i)

GoBegin == \E i \in Jobs : AtGoBegin(i)

CreateRequest == \E i \in Jobs : AtCreateRequest(i)

GetCalendarId == \E i \in Jobs : AtGetCalendarId(i)

GetCookies == \E i \in Jobs : AtGetCookies(i)

Login == \E i \in Jobs : AtLogin(i)

RecheckCookies == \E i \in Jobs : AtRecheckCookies(i)

ReturnCookies == \E i \in Jobs : AtReturnCookies(i)

CalendarGet == \E i \in Jobs : AtCalendarGet(i)

SubmitBegin == \E i \in Jobs : AtSubmitBegin(i)

SioConnect == \E i \in Jobs : AtSioConnect(i)

SioConnectError == \E i \in Jobs : AtSioConnectError(i)

HandlerConnect == \E i \in Jobs : AtHandlerConnect(i)

HandlerEmit == \E i \in Jobs : AtHandlerEmit(i)

OnMessage == \E i \in Jobs : AtOnMessage(i)

OnError == \E i \in Jobs : AtOnError(i)

TransportLost == \E i \in Jobs : AtTransportLost(i)

ServerDisconnect == \E i \in Jobs : AtServerDisconnect(i)

SubmitEnd == \E i \in Jobs : AtSubmitEnd(i)

Next ==
    \/ ExecuteBegin
    \/ ExecuteSubmit
    \/ ExecuteReturn
    \/ ExecuteAbort
    \/ Tick
    \/ ExecuteCollect
    \/ WorkerBuildPlan
    \/ SetIntervene
    \/ DirectBegin
    \/ PlanBegin
    \/ PlanPause
    \/ WaitPoll
    \/ WaitWake
    \/ GoBegin
    \/ CreateRequest
    \/ GetCalendarId
    \/ GetCookies
    \/ Login
    \/ RecheckCookies
    \/ ReturnCookies
    \/ CalendarGet
    \/ SubmitBegin
    \/ SioConnect
    \/ SioConnectError
    \/ HandlerConnect
    \/ HandlerEmit
    \/ OnMessage
    \/ OnError
    \/ TransportLost
    \/ ServerDisconnect
    \/ SubmitEnd
    \/ MonitorWrite
    \/ MonitorLookup
    \/ MonitorStore
    \/ MonitorRegister
    \/ MonitorRegistered

Spec == Init /\ [][Next]_vars

\* ================================================================== claims
Reported(i) == \E k \in 1..Len(printed) : printed[k] = i

Failed(i) == Finished(i) /\ outcome[i] # None

ExecuteOver == exec \in {"returned", "raised"}

\* C1: in execute, a failure of one attempt never aborts execute and never
\* keeps a sibling attempt from completing and having its outcome recorded:
\* when execute is over, every sibling of a failed attempt has had its
\* outcome stored and reported.
C1_FailureIsContained ==
    (caller = "execute" /\ ExecuteOver) =>
        \A i, j \in Jobs : (i # j /\ Failed(i)) => Reported(j)

\* C2: execute with N plans produces exactly N outcomes, outcome i being that
\* of plan i, whatever the order of completion and whichever attempts fail.
C2_OneOutcomePerPlan ==
    (caller = "execute" /\ ExecuteOver) =>
        /\ Len(printed) = num_jobs
        /\ Len(results) = num_jobs
        /\ \A i \in Jobs : Reported(i) /\ results[i] = outcome[i]

\* The part of C2 that holds on every path: a slot that has been filled holds
\* the outcome of the job with that index.
C2_SlotsAreAligned ==
    caller = "execute" =>
        \A i \in Jobs : Reported(i) => (pc[i] = "done" /\ results[i] = outcome[i])

\* C3: execute returns only after every attempt has produced an outcome: when
\* it returns no worker (and no client thread of a worker) is still running
\* and every result slot has been filled and reported.
C3_ReturnsAfterEveryOutcome ==
    (caller = "execute" /\ exec = "returned") =>
        \A i \in Jobs :
            /\ pc[i] = "done"
            /\ hpc[i] \in {"off", "closed"}
            /\ outcome[i] # Pending
            /\ Reported(i)
            /\ results[i] = outcome[i]

C3_Witness ==
    /\ caller = "execute"
    /\ exec = "returned"
    /\ num_jobs >= 2
    /\ \E i, j \in Jobs : outcome[i] # outcome[j]

Before(i, step, k) == \E j \in 1..(k - 1) : log[i][j] = step

\* C4: within one attempt the steps happen in program order: the creation
\* wait is over before the creation request is posted, the ticket is stored
\* before the socket connection is opened, the submission wait is over (on
\* the connection just established) before the message is emitted, and a
\* reply is handled only after an emit.
C4_ProgramOrder ==
    \A i \in Jobs : \A k \in 1..Len(log[i]) :
        /\ (log[i][k] = "post" /\ intervene[i] # NoPlan) =>
                (k > 1 /\ log[i][k - 1] = "creation_waited")
        /\ log[i][k] = "ticket" => (k > 1 /\ log[i][k - 1] = "post")
        /\ log[i][k] \in {"connected", "connect_error"} => Before(i, "ticket", k)
        /\ log[i][k] = "submission_waited" /\ caller # "plan" =>
                (k > 1 /\ log[i][k - 1] = "connected")
        /\ log[i][k] = "emit" =>
                /\ k > 1
                /\ log[i][k - 1] =
                        IF intervene[i] # NoPlan THEN "submission_waited" ELSE "connected"
                /\ Before(i, "connected", k)
        /\ log[i][k] = "reply" => Before(i, "emit", k)

C4_Witness ==
    \E i \in Jobs :
        /\ pc[i] = "done"
        /\ log[i] = <<"creation_waited", "post", "ticket", "connected",
                      "submission_waited", "emit", "reply">>

\* C5: wait_until of either class never returns while the server time (the
\* local clock plus the plan's offset) is below its target, for every poll
\* interval and every way the clock moves; and it sleeps only after a poll
\* that found the target not reached.
C5_NeverReturnsEarly ==
    [][\A i \in Jobs :
        /\ (wait[i].phase # "none" /\ wait'[i].phase # wait[i].phase) =>
                now + intervene[i].time_offset >= wait[i].target
        /\ (wait[i].phase # "none" /\ ~wait[i].asleep /\ wait'[i].asleep) =>
                now + intervene[i].time_offset < wait[i].target]_vars

\* The creation wait of a schedule.Intervene with a deadline in the future, a
\* negative offset and a poll interval of 0 has returned.
C5_Witness ==
    /\ caller = "plan"
    /\ entry[1] = "schedule"
    /\ intervene[1].time_offset < 0
    /\ intervene[1].creation_advance = 0
    /\ intervene[1].target_timestamp > 0
    /\ log[1] = <<"creation_waited">>

LeadTimesValid(c, s) ==
    /\ c >= 0
    /\ s >= 0
    /\ c - s <= Seconds(TICKET_ALIVE_SECONDS)
    /\ s <= Seconds(CONNECTION_ALIVE_SECONDS)

AllNumbers(a) ==
    /\ a.target_timestamp.ptype \in NumberTypes
    /\ a.creation_advance.ptype \in NumberTypes
    /\ a.submission_advance.ptype \in NumberTypes
    /\ a.time_offset.ptype \in NumberTypes

\* Job i's Intervene constructor has been called and has ended.
Constructed(i) ==
    /\ entry[i] \in {"worker", "go", "schedule", "reservation"}
    /\ pc[i] \notin {"idle", "queued"}

ValidationErrors ==
    {"ValueError: negative", "ValueError: interval too long",
     "ValueError: submission too early"}

InvalidPlan(i) ==
    /\ AllNumbers(intervene_args_all[i])
    /\ ~LeadTimesValid(intervene_args_all[i].creation_advance.val,
                       intervene_args_all[i].submission_advance.val)

C8_SubmitNeedsTicket ==
    \A i \in Jobs :
        ~(ticket[i].request_data /\ ticket[i].ticket /\ ticket[i].ticket_id) =>
            /\ pc[i] \notin {"connect", "sio"}
            /\ hpc[i] = "off"
            /\ connections[i] = 0
            /\ emits[i] = 0
            /\ (entry[i] = "submit_first" /\ pc[i] \notin {"idle", "submit"}) =>
                    (pc[i] = "raised" /\ outcome[i] = "AttributeError: no ticket")

C8_Witness ==
    \E i \in Jobs :
        /\ entry[i] = "submit_first"
        /\ pc[i] = "raised"
        /\ outcome[i] = "AttributeError: no ticket"
        /\ connections[i] = 0

\* C9: with a plan installed, the submission message is emitted only on an
\* established connection and only once the server time has reached target -
\* submission_advance; and no attempt's wait holds up another attempt: an
\* attempt whose deadline is reached can leave its wait, and an attempt that
\* has left it can emit, whatever the other attempts are doing.
C9_EmitAfterDeadline ==
    /\ [][\A i \in Jobs : emits'[i] # emits[i] =>
            /\ connections[i] >= 1
            /\ hpc[i] = "emit"
            /\ intervene[i] # NoPlan =>
                    now + intervene[i].time_offset
                        >= intervene[i].target_timestamp - intervene[i].submission_advance]_vars
    /\ [](\A i \in Jobs :
            /\ ( /\ hpc[i] = "submission_pause"
                 /\ now + intervene[i].time_offset
                        >= intervene[i].target_timestamp - intervene[i].submission_advance
                 /\ ~wait[i].asleep ) => ENABLED AtWaitPoll(i)
            /\ hpc[i] = "emit" => ENABLED AtHandlerEmit(i))

\* One attempt has emitted at its deadline while another, whose deadline is
\* later, is still in its submission wait.
C9_Witness ==
    \E i, j \in Jobs :
        /\ i # j
        /\ emits[j] = 1
        /\ hpc[i] = "submission_pause"
        /\ now + intervene[i].time_offset
                < intervene[i].target_timestamp - intervene[i].submission_advance
        /\ now + intervene[j].time_offset
                = intervene[j].target_timestamp - intervene[j].submission_advance

\* C10: per attempt, under every sequence of transport events, one creation
\* request is posted, one connection is used, the submission message is
\* emitted once on it and at most one reply is handled.
C10_OneShot ==
    \A i \in Jobs :
        /\ posts[i] <= 1
        /\ connections[i] <= 1
        /\ emits[i] <= 1
        /\ replies[i] <= 1
        /\ (pc[i] = "done" /\ caller = "direct") =>
                (posts[i] = 1 /\ connections[i] = 1 /\ emits[i] = 1 /\ replies[i] = 1)

\* Job i's call went through go() (or submit_request alone), in a worker or
\* in its caller's thread.
IsAttempt(i) == entry[i] \in {"worker", "go", "go_noplan", "submit_first"}

\* C11: whenever a reply is delivered to an attempt, whatever it holds, the
\* connection is closed right after it and no further reply is handled: once
\* a reply has been handled the client is disconnected and that reply is the
\* only one.
C11_ReplyClosesConnection ==
    \A i \in Jobs :
        replies[i] >= 1 => (hpc[i] = "closed" /\ replies[i] = 1)

\* Phase 2 of job i is over and no reply was handled in it.
EndedWithoutReply(i) ==
    /\ IsAttempt(i)
    /\ Finished(i)
    /\ replies[i] = 0
    /\ \E k \in 1..Len(log[i]) : log[i][k] \in {"connected", "connect_error"}

\* C12: a phase 2 that ends by a connection error, a protocol error or a
\* teardown with no reply makes submit_request raise with a message that
\* names the cause, and a component id is returned only after a reply with
\* the success flag.
C12_NoReplyIsAFailure ==
    \A i \in Jobs :
        /\ EndedWithoutReply(i) =>
                /\ outcome[i] \in {"ConnectionError", "RuntimeError: submit: message"}
                /\ ~res[i].success
        /\ (IsAttempt(i) /\ Finished(i) /\ outcome[i] = None) =>
                (res[i].success /\ replies[i] >= 1)

\* C13: the outcome of an attempt (what go() hands to worker, which returns it
\* as it is) carries the component id if and only if the attempt succeeded,
\* and a message if and only if it failed.
C13_OutcomeIsARecord ==
    \A i \in Jobs :
        (IsAttempt(i) /\ Finished(i)) =>
            IF res[i].success
            THEN outcome[i] = res[i].component_id
            ELSE outcome[i] \notin {None, "", res[i].component_id}

\* C14: when several attempts call User.get_cookies while no valid cookies
\* are cached, Credential.login runs once: no two attempts are ever inside
\* login at the same time.
C14_SingleFlightLogin ==
    Cardinality({i \in Jobs : InLogin(i)}) <= 1

\* C15: no attempt writes state that its siblings read: the cookies of the
\* shared User and the calendar id of the shared Equipment never change while
\* attempts run, and a step changes the ticket and the connection state of
\* one session at most.
C15_NoSharedWrites ==
    [][ /\ cookies' = cookies
        /\ calendar_id' = calendar_id
        /\ \A i, j \in Jobs :
            (i # j /\ <<ticket[i], hpc[i], res[i]>>' # <<ticket[i], hpc[i], res[i]>>) =>
                <<ticket[j], hpc[j], res[j]>>' = <<ticket[j], hpc[j], res[j]>> ]_vars

\* The message of the remote side for a submission that came second.
DuplicateRejection == "RuntimeError: submit: message"

\* C16: two plans with submission leads 0.0 and 0.3, raced: when execute has
\* returned, one recorded outcome is a success and the other a failure with
\* the remote side's rejection message.
C16_FirstSubmissionWins ==
    ( /\ caller = "execute"
      /\ exec = "returned"
      /\ num_jobs = 2
      /\ intervene_args_all[1].submission_advance = Arg("float", 0)
      /\ intervene_args_all[2].submission_advance = Arg("float", 3)
      /\ intervene_args_all[1].creation_advance.val = 2 ) =>
        \E i, j \in Jobs :
            /\ i # j
            /\ results[i] = None
            /\ results[j] = DuplicateRejection

\* Job i is go() on a session with the plan of 8 s and 0.3 s.
IsLeadPlan(i) ==
    /\ caller = "direct"
    /\ entry[i] = "go"
    /\ intervene_args_all[i] = LeadPlanArgs

\* C17 as stated: with creation lead 8 s, submission lead 0.3 s and offset 0
\* the submission message is pushed no earlier than the target instant T (so
\* that a remote which accepts from T on accepts it).
C17_PushedAtTarget ==
    \A i \in Jobs :
        (IsLeadPlan(i) /\ emits[i] >= 1) => now >= LeadPlanTarget

\* C17 as amended: the message is pushed no earlier than T - 0.3 s, the
\* target less the submission lead, and go() returns only after a reply with
\* the success flag.
C17_PushedAtSubmissionDeadline ==
    \A i \in Jobs :
        /\ (IsLeadPlan(i) /\ emits[i] >= 1) =>
                now >= LeadPlanTarget - ((3 * TicksPerSecond) \div 10)
        /\ (IsLeadPlan(i) /\ pc[i] = "done") =>
                (res[i].success /\ replies[i] >= 1 /\ emits[i] >= 1)

\* The message of the plan has been pushed before T, at T - 0.3 s.
C17_Witness ==
    \E i \in Jobs :
        /\ IsLeadPlan(i)
        /\ emits[i] = 1
        /\ now = LeadPlanTarget - ((3 * TicksPerSecond) \div 10)
        /\ now < LeadPlanTarget

\* C18: an error raised inside an attempt ends that attempt where it is
\* raised, becomes its recorded outcome with the error's message, and leaves
\* neither the worker nor execute as an exception.
C18_ErrorsAreCaptured ==
    caller = "execute" =>
        /\ \A i \in Jobs : pc[i] # "raised"
        /\ exec \notin {"aborting", "raised"}
        /\ \A i \in Jobs :
            /\ (Failed(i) /\ exec = "returned") =>
                    (Reported(i) /\ results[i] = outcome[i])
            /\ (Failed(i) /\ outcome[i] \in ValidationErrors
                                \cup {"TypeError: not a number", "TypeError: intervene"}) =>
                    (wait[i] = NoWait /\ posts[i] = 0 /\ connections[i] = 0)

\* The steps of job i that wait for no clock and for no event of the
\* connection.
AttemptStep(i) ==
    \/ AtWorkerBuildPlan(i) \/ AtSetIntervene(i) \/ AtDirectBegin(i)
    \/ AtGoBegin(i) \/ AtGetCalendarId(i) \/ AtGetCookies(i) \/ AtLogin(i)
    \/ AtRecheckCookies(i) \/ AtReturnCookies(i)
    \/ AtCalendarGet(i) \/ AtCreateRequest(i) \/ AtSubmitBegin(i)
    \/ AtSioConnect(i) \/ AtHandlerConnect(i) \/ AtHandlerEmit(i)
    \/ AtWaitPoll(i) \/ AtWaitWake(i) \/ AtSubmitEnd(i)

\* Job i is in none of its three suspensions: it is not asleep in a wait,
\* not waiting for a reply, and not finished.
NotSuspended(i) ==
    /\ ~Finished(i)
    /\ caller # "plan"
    /\ caller = "execute" => pc[i] # "idle"
    /\ ~(wait[i].phase # "none" /\ wait[i].asleep /\ now < wait[i].wake)
    /\ ~(pc[i] = "sio" /\ hpc[i] = "listening")

\* Job i is suspended in a wait whose deadline has not come.
Suspended(i) ==
    /\ wait[i].phase # "none"
    /\ wait[i].asleep
    /\ now + intervene[i].time_offset < wait[i].target

\* C19: the suspensions of one attempt never hold up another: a job that is
\* queued can be started, a job that is not suspended can take its next step
\* and a finished job can be collected, whatever the other jobs are doing.
C19_NoAttemptBlocksAnother ==
    [](\A i \in Jobs :
        /\ (caller = "execute" /\ pc[i] = "queued") => ENABLED AtWorkerBuildPlan(i)
        /\ NotSuspended(i) => ENABLED AttemptStep(i)
        /\ (exec = "collecting" /\ AsCompleted(i)) => ENABLED AtExecuteCollect(i))

\* One attempt is asleep in its submission wait, before its deadline, and a
\* sibling that was started with it has reached its outcome.
C19_Witness ==
    \E i, j \in Jobs :
        /\ i # j
        /\ Suspended(i)
        /\ hpc[i] = "submission_pause"
        /\ Finished(j)
        /\ emits[j] >= 1

CreateRejections ==
    [alert |-> "RuntimeError: create: 200 OK: alert text",
     error_dialog |-> "RuntimeError: create: 200 OK: dialog text"]

C21_TicketIdIsTheIssuedOne ==
    \A i \in Jobs :
        form_submit[i] # EmptyDict =>
            /\ "ticketId" \in DOMAIN form_submit[i]
            /\ form_submit[i]["ticketId"] = IssuedTicketId

\* A payload has been pushed whose caller form named a ticketId of its own,
\* and in which the Hack's user id and the caller's component id have
\* replaced the issued ones.
C21_Witness ==
    \E i \in Jobs :
        /\ emits[i] = 1
        /\ form_submit[i]["ticketId"] = IssuedTicketId
        /\ form_submit[i]["name"] = "caller"
        /\ form_submit[i]["currentUserId"] = "hack"
        /\ form_submit[i]["component_id"] = "caller"
        /\ form_submit[i]["dtstart"] = "caller"

\* The time left until the deadline of job i's wait, at the clock's reading.
Remaining(i) == wait[i].target - (now + intervene[i].time_offset)

\* C22 as stated: the sleep after a poll shrinks with the time left: it is
\* min(1 s, remaining / 10) in the creation wait and min(1 ms, remaining /
\* 100) in the submission wait, remaining being the time left at that poll.
C22_PollShrinksWithRemaining ==
    [][\A i \in Jobs : (~wait[i].asleep /\ wait'[i].asleep) =>
        /\ wait'[i].poll =
                IF wait[i].phase = "creation"
                THEN Min(100 * Seconds(1), 10 * Remaining(i))
                ELSE Min(Seconds(1) \div 10, Remaining(i))
        /\ wait'[i].wake = now + (wait'[i].poll \div 100)]_vars

\* C22 as amended: the sleep after a poll is the same at every poll of a
\* wait: min(1 s, creation_advance / 10) in the creation wait and min(1 ms,
\* submission_advance / 100) in the submission wait, fixed by the plan's lead
\* when the wait starts, whatever time is left.
C22_PollIsFixedByTheLead ==
    /\ [](\A i \in Jobs : wait[i].phase # "none" =>
            wait[i].poll =
                IF wait[i].phase = "creation"
                THEN Min(100 * Seconds(1), 10 * intervene[i].creation_advance)
                ELSE Min(Seconds(1) \div 10, intervene[i].submission_advance))
    /\ [][\A i \in Jobs : (~wait[i].asleep /\ wait'[i].asleep) =>
            /\ wait'[i].poll = wait[i].poll
            /\ wait'[i].wake = now + (wait[i].poll \div 100)]_vars

\* A creation wait sleeps after a poll that was not its first, with less
\* time left than the creation advance, for the interval of its first poll.
C22_Witness ==
    \E i \in Jobs :
        /\ wait[i].phase = "creation"
        /\ wait[i].asleep
        /\ wait[i].wake = now
        /\ now >= 1
        /\ Remaining(i) > 0
        /\ Remaining(i) < intervene[i].creation_advance
        /\ wait[i].poll = 10 * intervene[i].creation_advance

\* C23: the creation wait targets target_timestamp - creation_advance and
\* the submission wait target_timestamp - submission_advance; a poll ends the
\* wait exactly when the local clock plus the plan's offset has reached that
\* target; and a plan's fields are those it was constructed with and never
\* change.
C23_ExactDeadlines ==
    /\ [](\A i \in Jobs :
            /\ wait[i].phase = "creation" =>
                    wait[i].target =
                        intervene[i].target_timestamp - intervene[i].creation_advance
            /\ wait[i].phase = "submission" =>
                    wait[i].target =
                        intervene[i].target_timestamp - intervene[i].submission_advance
            /\ intervene[i] # NoPlan =>
                    /\ intervene[i].target_timestamp = intervene_args_all[i].target_timestamp.val
                    /\ intervene[i].creation_advance = intervene_args_all[i].creation_advance.val
                    /\ intervene[i].submission_advance = intervene_args_all[i].submission_advance.val
                    /\ intervene[i].time_offset = intervene_args_all[i].time_offset.val)
    /\ [][\A i \in Jobs :
            /\ (wait[i].phase # "none" /\ wait'[i].phase # wait[i].phase) =>
                    now + intervene[i].time_offset >= wait[i].target
            /\ (wait[i].phase # "none" /\ ~wait[i].asleep /\ wait'[i].phase = wait[i].phase
                    /\ wait'[i] # wait[i]) =>
                    (now + intervene[i].time_offset < wait[i].target /\ wait'[i].asleep)
            /\ intervene[i] # NoPlan => intervene'[i] = intervene[i]]_vars

\* With a positive offset, the creation wait of a plan has returned while
\* the local clock was still below its deadline, the server time having
\* reached it, and the submission wait is in progress.
C23_Witness ==
    \E i \in Jobs :
        /\ intervene[i].time_offset > 0
        /\ log[i] = <<"creation_waited">>
        /\ now < intervene[i].target_timestamp - intervene[i].creation_advance
        /\ now + intervene[i].time_offset
                >= intervene[i].target_timestamp - intervene[i].creation_advance
        /\ wait[i].phase = "submission"
        /\ intervene[i].creation_advance # intervene[i].submission_advance
        /\ now + intervene[i].time_offset < wait[i].target

\* Job i's arguments are numbers that satisfy the lead-time invariants.
ValidPlan(i) ==
    /\ AllNumbers(intervene_args_all[i])
    /\ intervene_args_all[i].target_timestamp.val >= 0
    /\ LeadTimesValid(intervene_args_all[i].creation_advance.val,
                      intervene_args_all[i].submission_advance.val)

\* C24: in execute, the worker of a plan that satisfies the lead-time
\* invariants does not fail before phase 1: set_intervene accepts the plan
\* object the worker builds, and the attempt ends only after its creation
\* wait and its creation request.
C24_ValidPlanReachesPhaseOne ==
    caller = "execute" =>
        \A i \in Jobs : (ValidPlan(i) /\ Finished(i)) =>
            /\ outcome[i] # "TypeError: intervene"
            /\ \E k \in 1..Len(log[i]) : log[i][k] = "creation_waited"
            /\ posts[i] >= 1

\* C25: what User.get_cookies returns holds every key of COOKIE_KEYS, also
\* when several threads are in it at once and their logins return different
\* cookie sets; and a thread whose own login returned every key does not end
\* with the incomplete-cookie error.
C25_ReturnsCompleteCookies ==
    \A i \in Jobs :
        /\ got_cookies[i] # "none" => got_cookies[i] = "complete"
        /\ (Finished(i) /\ outcome[i] = "RuntimeError: invalid cookie") =>
                login_cookies[i] # "complete"

\* The part of C25 that is about one thread: alone in get_cookies, a thread
\* gets cookies with every key or an error.
C25_AloneReturnsCompleteCookies ==
    \A i \in Jobs :
        SoleSession =>
            /\ got_cookies[i] # "none" => got_cookies[i] = "complete"
            /\ (Finished(i) /\ outcome[i] = "RuntimeError: invalid cookie") =>
                    login_cookies[i] = "incomplete"

\* C26 as stated: every plan a constructor has accepted has creation_advance
\* >= submission_advance, so that its creation deadline is not later than its
\* submission deadline.
C26_CreationLeadIsTheLonger ==
    \A i \in Jobs :
        intervene[i] # NoPlan =>
            /\ intervene[i].creation_advance >= intervene[i].submission_advance
            /\ intervene[i].target_timestamp - intervene[i].creation_advance
                    <= intervene[i].target_timestamp - intervene[i].submission_advance

\* C26 as amended: the constructors bound creation_advance -
\* submission_advance from above only, and accept a creation advance shorter
\* than the submission advance; in every attempt the ticket is still
\* requested before the message is pushed, and the push comes when the server
\* time has reached both deadlines.
C26_TicketBeforePush ==
    \A i \in Jobs :
        /\ intervene[i] # NoPlan =>
                intervene[i].creation_advance - intervene[i].submission_advance
                    <= Seconds(TICKET_ALIVE_SECONDS)
        /\ \A k \in 1..Len(log[i]) : log[i][k] = "emit" => Before(i, "ticket", k)
        /\ (intervene[i] # NoPlan /\ emits[i] >= 1) =>
                /\ now + intervene[i].time_offset
                        >= intervene[i].target_timestamp - intervene[i].creation_advance
                /\ now + intervene[i].time_offset
                        >= intervene[i].target_timestamp - intervene[i].submission_advance

\* The message of a plan whose creation advance is shorter than its
\* submission advance has been pushed at the creation deadline, after the
\* submission deadline, on a ticket that was requested before.
C26_Witness ==
    \E i \in Jobs :
        /\ intervene[i] # NoPlan
        /\ intervene[i].creation_advance < intervene[i].submission_advance
        /\ emits[i] = 1
        /\ ticket[i].ticket_id
        /\ now + intervene[i].time_offset
                = intervene[i].target_timestamp - intervene[i].creation_advance
        /\ now + intervene[i].time_offset
                > intervene[i].target_timestamp - intervene[i].submission_advance

\* C27: create_request is all-or-nothing on the session's ticket state: when
\* it has raised, none of request_data, ticket and ticket_id is set, and when
\* it has returned, all three are.
C27_CreateIsAllOrNothing ==
    \A i \in Jobs :
        response[i] # "none" =>
            IF CreateError(response[i]) = "ok"
            THEN ticket[i] = [request_data |-> TRUE, ticket |-> TRUE, ticket_id |-> TRUE]
            ELSE ticket[i] = NoTicket

\* The two wait_until, called with the same target at the same reading of
\* the clock, begin alike (both enter the loop, or both raise the same).
BeginAlike(ps, pr, target) ==
    schedule_wait_until_begins(ps, target, now)
        = reservation_wait_until_begins(pr, target, now)

\* The pauses of the two classes give wait_until the same deadline and the
\* same poll interval, and a poll at the clock's reading ends both waits or
\* neither.
WaitAlike(ps, pr) ==
    /\ schedule_pause_before_request_creation(ps)
            = reservation_pause_before_request_creation(pr)
    /\ schedule_pause_before_request_submission(ps)
            = reservation_pause_before_request_submission(pr)
    /\ \A target \in {schedule_pause_before_request_creation(ps).target,
                       schedule_pause_before_request_submission(ps).target} :
            schedule_wait_until_returns(ps, target, now)
                = reservation_wait_until_returns(pr, target, now)

\* C28 as stated: schedule.Intervene and reservation.Intervene are
\* equivalent: given the same arguments both constructors accept them or
\* both raise the same error, and for accepted arguments their two waits
\* have the same deadline and poll interval, begin alike and return at the
\* same poll.
C28_ClassesAreEquivalent ==
    \A i \in Jobs :
        LET a == intervene_args_all[i]
            ps == PlanObject("schedule", a)
            pr == PlanObject("reservation", a)
        IN  /\ ScheduleInterveneInit(a) = ReservationInterveneInit(a)
            /\ ScheduleInterveneInit(a) = "ok" =>
                    /\ WaitAlike(ps, pr)
                    /\ BeginAlike(ps, pr, ps.target_timestamp - ps.creation_advance)
                    /\ BeginAlike(ps, pr, ps.target_timestamp - ps.submission_advance)
            /\ (caller = "plan" /\ pc[i] = "raised" /\ entry[i] = "reservation") =>
                    outcome[i] = ScheduleInterveneInit(a)

\* C28 as amended: the constructors are equivalent, and so are the waits'
\* deadlines, poll intervals and loops; but a wait of reservation.Intervene
\* that begins before its deadline first converts the deadline to a datetime,
\* and raises for a deadline that datetime cannot hold, where the wait of
\* schedule.Intervene begins to poll.
C28_EquivalentWithinDatetime ==
    \A i \in Jobs :
        LET a == intervene_args_all[i]
            ps == PlanObject("schedule", a)
            pr == PlanObject("reservation", a)
        IN  /\ ScheduleInterveneInit(a) = ReservationInterveneInit(a)
            /\ ScheduleInterveneInit(a) = "ok" =>
                    /\ WaitAlike(ps, pr)
                    /\ \A target \in {ps.target_timestamp - ps.creation_advance,
                                       ps.target_timestamp - ps.submission_advance} :
                            IF target - (now + ps.time_offset) > 0 /\ target > MaxDatetime
                            THEN /\ schedule_wait_until_begins(ps, target, now) = "ok"
                                 /\ reservation_wait_until_begins(pr, target, now)
                                        = "ValueError: year out of range"
                            ELSE BeginAlike(ps, pr, target)
            /\ (caller = "plan" /\ pc[i] = "raised") =>
                    IF outcome[i] = "ValueError: year out of range"
                    THEN /\ entry[i] = "reservation"
                         /\ ScheduleInterveneInit(a) = "ok"
                         /\ pr.target_timestamp - pr.creation_advance > MaxDatetime
                    ELSE outcome[i] = ScheduleInterveneInit(a)
            /\ (caller = "plan" /\ wait[i].phase # "none") =>
                    /\ ScheduleInterveneInit(a) = "ok"
                    /\ entry[i] = "reservation" => wait[i].target <= MaxDatetime

\* The creation pause of a reservation.Intervene whose deadline is beyond
\* datetime's range has raised.
C28_Witness ==
    \E i \in Jobs :
        /\ caller = "plan"
        /\ entry[i] = "reservation"
        /\ pc[i] = "raised"
        /\ intervene[i].target_timestamp - intervene[i].creation_advance > MaxDatetime
        /\ outcome[i] = "ValueError: year out of range"
        /\ wait[i] = NoWait

\* The buffers of the ThreadMonitor by key: the main buffer and the worker
\* buffers.
MainBuffer == "<main>"
BufferKeys == {MainBuffer} \cup DOMAIN thread_data
Buffer(key) == IF key = MainBuffer THEN main_thread_output ELSE thread_data[key]

\* Where message m is: the buffers and the positions that hold it.
Places(m) ==
    {<<key, p>> : key \in BufferKeys, p \in 1..MaxWrites * Cardinality(MonitorThreads)}
        \cap {kp \in BufferKeys \X (1..MaxWrites * Cardinality(MonitorThreads)) :
                kp[2] <= Len(Buffer(kp[1])) /\ Buffer(kp[1])[kp[2]] = m}

\* The k-th write of thread t has returned.
Written(t, k) == k < Len(sent[t]) \/ (k = Len(sent[t]) /\ mpc[t] \notin
                    {"write", "append", "append_main", "create"})

\* C29: under every interleaving of writes and registrations, each message
\* written is in exactly one buffer, once: the main buffer when the writer's
\* logical name is MainThread (no worker buffer has that name), otherwise the
\* worker buffer of that name; no buffer holds anything else, and the
\* messages of a thread are in the order of its writes.
C29_EachMessageInItsBuffer ==
    caller = "monitor" =>
        /\ MainThread \notin DOMAIN thread_data
        /\ \A t \in MonitorThreads : \A k \in 1..Len(sent[t]) :
                Written(t, k) =>
                    Places(Message(t, k)) \in
                        {{<<IF sent[t][k] = MainThread THEN MainBuffer ELSE sent[t][k], p>>} :
                            p \in 1..MaxWrites * Cardinality(MonitorThreads)}
        /\ \A key \in BufferKeys : \A p \in 1..Len(Buffer(key)) :
                /\ Buffer(key)[p].thread \in MonitorThreads
                /\ Buffer(key)[p].seq \in 1..Len(sent[Buffer(key)[p].thread])
                /\ \A q \in 1..(p - 1) :
                        Buffer(key)[q].thread = Buffer(key)[p].thread =>
                            Buffer(key)[q].seq < Buffer(key)[p].seq

\* The event thread wrote under its own name, registered as MainThread and
\* wrote again, after the main thread; the other thread has its own buffer.
C29_Witness ==
    /\ caller = "monitor"
    /\ lock = NoThread
    /\ main_thread_output = <<Message(MainThread, 1), Message(EventThread, 2)>>
    /\ DOMAIN thread_data = {"Thread-1", EventThread}
    /\ thread_data[EventThread] = <<Message(EventThread, 1)>>
    /\ Len(thread_data["Thread-1"]) = MaxWrites

\* C30: a MultiReservationScheduler given no submission advance raises in
\* its constructor, and execute never runs with zero jobs; one that was
\* constructed has a plan per submission advance, at least one, and its
\* plans have the same target, creation advance and offset.
C30_NoEmptyRace ==
    caller = "execute" =>
        /\ num_jobs = 0 <=> exec = "init_raised"
        /\ exec = "init_raised" => (submitted = 0 /\ results = <<>>)
        /\ exec # "init_raised" =>
                /\ num_jobs >= 1
                /\ submitted <= num_jobs
                /\ Len(results) \in {0, num_jobs}
                /\ \A i, j \in Jobs :
                    /\ intervene_args_all[i].target_timestamp
                            = intervene_args_all[j].target_timestamp
                    /\ intervene_args_all[i].creation_advance
                            = intervene_args_all[j].creation_advance
                    /\ intervene_args_all[i].time_offset
                            = intervene_args_all[j].time_offset

\* A scheduler was given no submission advance, and its constructor raised.
C30_Witness ==
    /\ caller = "execute"
    /\ intervene_args_all = <<>>
    /\ exec = "init_raised"
    /\ submitted = 0

====
